---- MODULE Spec2Model ----
(***************************************************************************)
(* Model of utils/ConvertCSVtoSQL.py: a script that reads a CSV of         *)
(* listening history and, through one psycopg2 connection, looks up or     *)
(* inserts an artist and a song per row, inserts a history row, and        *)
(* commits once after the loop.                                            *)
(*                                                                         *)
(* The database is modelled as the durable state (committed), the rows     *)
(* written by the open transaction (tx) and the two id sequences, which    *)
(* PostgreSQL does not roll back.  An uncaught exception ends the process: *)
(* the server discards the open transaction.                               *)
(***************************************************************************)
EXTENDS Integers, Sequences, FiniteSets, TLC

VARIABLES
    pc,          \* position of the script
    csv,         \* content of the CSV file: a sequence of rows
    i,           \* number of rows the reader has yielded so far
    date_time,   \* local: parsed timestamp of the current row
    artist_id,   \* local: resolved artist id of the current row (0 = unset)
    song_id,     \* local: resolved song id of the current row (0 = unset)
    committed,   \* durable database content
    tx,          \* rows inserted by the open transaction, not yet durable
    artistSeq,   \* last value of the artists id sequence
    songSeq,     \* last value of the songs id sequence
    conn,        \* "none" | "open" | "closed"
    cur,         \* "none" | "open" | "closed"
    commits,     \* number of conn.commit() calls of this run
    printed,     \* number of success lines printed by this run
    err,         \* exception that ended this run, "none" if none
    run,         \* number of the current run of the script
    db0,         \* durable database content when the current run started
    dbInit,      \* durable database content before the first run
    envFailed    \* some run was ended by a failure of the database server

vars == <<pc, csv, i, date_time, artist_id, song_id, committed, tx, artistSeq,
          songSeq, conn, cur, commits, printed, err, run, db0, dbInit,
          envFailed>>

----------------------------------------------------------------------------
(* Bounds *)

MaxRows == 2
MaxRuns == 2

----------------------------------------------------------------------------
(* Timestamp text and datetime.strptime(s, "%B %d, %Y at %I:%M%p") *)

\* A timestamp text is the sequence of its tokens.
TLong     == <<"January", "5", "2024", "at", "3", "45", "PM">>
TMidnight == <<"December", "31", "2023", "at", "12", "05", "AM">>
TIso      == <<"2024", "01", "05", "15", "45">>

MonthNames == {"January", "February", "March", "April", "May", "June", "July",
               "August", "September", "October", "November", "December"}

MonthNumber(m) ==
    CASE m = "January" -> 1  [] m = "February" -> 2  [] m = "March" -> 3
      [] m = "April" -> 4    [] m = "May" -> 5       [] m = "June" -> 6
      [] m = "July" -> 7     [] m = "August" -> 8    [] m = "September" -> 9
      [] m = "October" -> 10 [] m = "November" -> 11 [] m = "December" -> 12

NumberTexts == {"01", "05", "3", "5", "12", "15", "31", "45", "2023", "2024"}

ToInt(s) ==
    CASE s = "01" -> 1   [] s = "05" -> 5   [] s = "3" -> 3   [] s = "5" -> 5
      [] s = "12" -> 12  [] s = "15" -> 15  [] s = "31" -> 31 [] s = "45" -> 45
      [] s = "2023" -> 2023 [] s = "2024" -> 2024

DaysIn(month, year) ==
    IF month \in {4, 6, 9, 11} THEN 30
    ELSE IF month = 2
         THEN (IF year % 4 = 0 /\ (year % 100 # 0 \/ year % 400 = 0) THEN 29 ELSE 28)
         ELSE 31

NoDate == [year |-> 0, month |-> 0, day |-> 0, hour |-> 0, minute |-> 0]

\* TRUE iff strptime accepts the text.
StrpTimeOK(t) ==
    /\ Len(t) = 7
    /\ t[1] \in MonthNames
    /\ t[2] \in NumberTexts /\ t[3] \in NumberTexts
    /\ t[4] = "at"
    /\ t[5] \in NumberTexts /\ t[6] \in NumberTexts
    /\ t[7] \in {"AM", "PM"}
    /\ ToInt(t[3]) \in 1..9999
    /\ ToInt(t[2]) \in 1..DaysIn(MonthNumber(t[1]), ToInt(t[3]))
    /\ ToInt(t[5]) \in 1..12
    /\ ToInt(t[6]) \in 0..59

\* The datetime strptime returns: %I with %p is converted to a 24-hour hour.
StrpTime(t) ==
    [year   |-> ToInt(t[3]),
     month  |-> MonthNumber(t[1]),
     day    |-> ToInt(t[2]),
     hour   |-> (ToInt(t[5]) % 12) + (IF t[7] = "PM" THEN 12 ELSE 0),
     minute |-> ToInt(t[6])]

----------------------------------------------------------------------------
(* Input files *)

RowA     == <<TLong, "Song A", "Drake", "abc123", "http://a">>
RowB     == <<TMidnight, "Song B", "drake", "abc123", "http://b">>
RowC     == <<TLong, "Song C", "Drake", "xyz789", "http://c">>
RowShort == <<TLong, "Song A", "Drake", "abc123">>
RowIso   == <<TIso, "Song A", "Drake", "abc123", "http://a">>

Rows == {RowA, RowB, RowC, RowShort, RowIso}

CsvFiles == UNION {[1..n -> Rows] : n \in 0..MaxRows}

\* The five names the unpacking of line 23 binds, for the row just read.
date_time_str == csv[i][1]
song_name     == csv[i][2]
artist_name   == csv[i][3]
spotify_id    == csv[i][4]
link          == csv[i][5]

----------------------------------------------------------------------------
(* Database *)

EmptyTx == [artists |-> {}, songs |-> {}, history |-> <<>>]

Date0 == [year |-> 2023, month |-> 6, day |-> 1, hour |-> 9, minute |-> 0]

\* Databases the script may be started on, each with its two id sequences.
DbEmpty ==
    [db |-> [artists |-> {}, songs |-> {}, history |-> <<>>],
     artistSeq |-> 0, songSeq |-> 0]

DbOneSong ==
    [db |-> [artists |-> {[id |-> 1, name |-> "Drake"]},
             songs   |-> {[id |-> 1, name |-> "Old Name", artist_id |-> 1,
                           spotify_id |-> "abc123", link |-> "http://old"]},
             history |-> <<[user_id |-> 1, song_id |-> 1, date_listened |-> Date0]>>],
     artistSeq |-> 1, songSeq |-> 1]

DbTwoArtists ==
    [db |-> [artists |-> {[id |-> 1, name |-> "Drake"], [id |-> 2, name |-> "drake"]},
             songs   |-> {},
             history |-> <<>>],
     artistSeq |-> 2, songSeq |-> 0]

InitialDatabases == {DbEmpty, DbOneSong, DbTwoArtists}

\* What the cursor of the open transaction sees.
View ==
    [artists |-> committed.artists \cup tx.artists,
     songs   |-> committed.songs \cup tx.songs,
     history |-> committed.history \o tx.history]

\* SELECT id FROM artists WHERE name = %s
SelectArtistIds(name) == {a.id : a \in {x \in View.artists : x.name = name}}

\* SELECT id FROM songs WHERE spotify_id = %s
SelectSongIds(sid) == {s.id : s \in {x \in View.songs : x.spotify_id = sid}}

\* The history INSERT of lines 52-55: its target columns, the %s placeholders
\* of its VALUES list, and the parameters passed to execute().
HistoryColumns      == <<"user_id", "song_id", "date_listened", "listening_time">>
HistoryPlaceholders == 3
UserId == 1
HistoryParams       == <<UserId, song_id, date_time>>

\* psycopg2 fills the placeholders when there is one parameter per placeholder;
\* PostgreSQL accepts an INSERT with a column list only when the VALUES list
\* has exactly one expression per target column.
HistoryInsertAccepted ==
    /\ Len(HistoryParams) = HistoryPlaceholders
    /\ HistoryPlaceholders = Len(HistoryColumns)

HistoryRow ==
    [user_id |-> HistoryParams[1], song_id |-> HistoryParams[2],
     date_listened |-> HistoryParams[3]]

----------------------------------------------------------------------------
(* The script *)

Init ==
    /\ pc = "connect"
    /\ csv \in CsvFiles
    /\ i = 0
    /\ date_time = NoDate
    /\ artist_id = 0
    /\ song_id = 0
    /\ \E d \in InitialDatabases :
         /\ committed = d.db
         /\ artistSeq = d.artistSeq
         /\ songSeq = d.songSeq
         /\ db0 = d.db
         /\ dbInit = d.db
    /\ tx = EmptyTx
    /\ conn = "none"
    /\ cur = "none"
    /\ commits = 0
    /\ printed = 0
    /\ err = "none"
    /\ run = 1
    /\ envFailed = FALSE

\* Raise with the transaction committed on the way out (a commit in a
\* finally clause).
RaiseCommitting(e) ==
    /\ pc' = "aborted"
    /\ err' = e
    /\ committed' = View
    /\ tx' = EmptyTx
    /\ commits' = commits + 1
    /\ UNCHANGED <<printed, conn, cur>>

\* Raise with the success line printed on the way out (a print in a finally
\* clause).
RaisePrinting(e) ==
    /\ pc' = "aborted"
    /\ err' = e
    /\ tx' = EmptyTx
    /\ printed' = printed + 1
    /\ UNCHANGED <<committed, commits, conn, cur>>

\* An exception nothing catches: the process ends where it stands, the server
\* rolls the open transaction back, nothing is closed and nothing is printed.
Raise(e) ==
    /\ pc' = "aborted"
    /\ err' = e
    /\ tx' = EmptyTx
    /\ UNCHANGED <<committed, commits, printed, conn, cur>>

\* Lines 6-13: psycopg2.connect and conn.cursor.
Connect ==
    /\ pc = "connect"
    /\ \E ok \in BOOLEAN :
         /\ envFailed' = (envFailed \/ ~ok)
         /\ IF ok
            THEN /\ conn' = "open"
                 /\ cur' = "open"
                 /\ pc' = "loop"
                 /\ UNCHANGED <<err, tx, committed, commits, printed>>
            ELSE Raise("OperationalError")
    /\ UNCHANGED <<csv, i, date_time, artist_id, song_id, artistSeq, songSeq,
                   run, db0, dbInit>>

\* Lines 21-23: the reader yields the next row, or the loop ends; the row is
\* unpacked into exactly five names.
ReadRow ==
    /\ pc = "loop"
    /\ IF i = Len(csv)
       THEN /\ pc' = "commit"
            /\ UNCHANGED <<i, err, tx, committed, commits, printed, conn, cur>>
       ELSE /\ i' = i + 1
            /\ IF Len(csv[i + 1]) = 5
               THEN /\ pc' = "strptime"
                    /\ UNCHANGED <<err, tx, committed, commits, printed, conn, cur>>
               ELSE Raise("MalformedRow")
    /\ UNCHANGED <<csv, date_time, artist_id, song_id, artistSeq, songSeq,
                   run, db0, dbInit, envFailed>>

\* Line 26: datetime.strptime.
ParseDate ==
    /\ pc = "strptime"
    /\ IF StrpTimeOK(date_time_str)
       THEN /\ date_time' = StrpTime(date_time_str)
            /\ pc' = "artist"
            /\ UNCHANGED <<err, tx, committed, commits, printed, conn, cur>>
       ELSE /\ Raise("DateParse")
            /\ UNCHANGED date_time
    /\ UNCHANGED <<csv, i, artist_id, song_id, artistSeq, songSeq,
                   run, db0, dbInit, envFailed>>

\* ResolveArtist that does not take the id the INSERT returns: artist_id keeps
\* the value it had.
ResolveArtistStaleId ==
    /\ pc = "artist"
    /\ \E ok \in BOOLEAN :
         /\ envFailed' = (envFailed \/ ~ok)
         /\ IF ~ok
            THEN /\ Raise("OperationalError")
                 /\ UNCHANGED <<artist_id, artistSeq>>
            ELSE /\ pc' = "song"
                 /\ IF SelectArtistIds(artist_name) = {}
                    THEN /\ artistSeq' = artistSeq + 1
                         /\ tx' = [tx EXCEPT !.artists =
                                     @ \cup {[id |-> artistSeq + 1, name |-> artist_name]}]
                         /\ artist_id' = artist_id
                    ELSE /\ artist_id' \in SelectArtistIds(artist_name)
                         /\ UNCHANGED <<tx, artistSeq>>
                 /\ UNCHANGED <<err, committed, commits, printed, conn, cur>>
    /\ UNCHANGED <<csv, i, date_time, song_id, songSeq, run, db0, dbInit>>

\* Lines 29-36: look the artist up by name, insert it when absent.
ResolveArtist ==
    /\ pc = "artist"
    /\ \E ok \in BOOLEAN :
         /\ envFailed' = (envFailed \/ ~ok)
         /\ IF ~ok
            THEN /\ Raise("OperationalError")
                 /\ UNCHANGED <<artist_id, artistSeq>>
            ELSE /\ pc' = "song"
                 /\ IF SelectArtistIds(artist_name) = {}
                    THEN /\ artistSeq' = artistSeq + 1
                         /\ tx' = [tx EXCEPT !.artists =
                                     @ \cup {[id |-> artistSeq + 1, name |-> artist_name]}]
                         /\ artist_id' = artistSeq + 1
                    ELSE /\ artist_id' \in SelectArtistIds(artist_name)
                         /\ UNCHANGED <<tx, artistSeq>>
                 /\ UNCHANGED <<err, committed, commits, printed, conn, cur>>
    /\ UNCHANGED <<csv, i, date_time, song_id, songSeq, run, db0, dbInit>>

\* ResolveSong without the lookup: the song is inserted whether or not its
\* spotify_id is known.
ResolveSongAlwaysInsert ==
    /\ pc = "song"
    /\ \E ok \in BOOLEAN :
         /\ envFailed' = (envFailed \/ ~ok)
         /\ IF ~ok
            THEN /\ Raise("OperationalError")
                 /\ UNCHANGED <<song_id, songSeq>>
            ELSE /\ pc' = "history"
                 /\ songSeq' = songSeq + 1
                 /\ tx' = [tx EXCEPT !.songs =
                             @ \cup {[id |-> songSeq + 1, name |-> song_name,
                                      artist_id |-> artist_id,
                                      spotify_id |-> spotify_id, link |-> link]}]
                 /\ song_id' = songSeq + 1
                 /\ UNCHANGED <<err, committed, commits, printed, conn, cur>>
    /\ UNCHANGED <<csv, i, date_time, artist_id, artistSeq, run, db0, dbInit>>

\* Lines 39-49: look the song up by spotify_id, insert it when absent.
ResolveSong ==
    /\ pc = "song"
    /\ \E ok \in BOOLEAN :
         /\ envFailed' = (envFailed \/ ~ok)
         /\ IF ~ok
            THEN /\ Raise("OperationalError")
                 /\ UNCHANGED <<song_id, songSeq>>
            ELSE /\ pc' = "history"
                 /\ IF SelectSongIds(spotify_id) = {}
                    THEN /\ songSeq' = songSeq + 1
                         /\ tx' = [tx EXCEPT !.songs =
                                     @ \cup {[id |-> songSeq + 1, name |-> song_name,
                                              artist_id |-> artist_id,
                                              spotify_id |-> spotify_id, link |-> link]}]
                         /\ song_id' = songSeq + 1
                    ELSE /\ song_id' \in SelectSongIds(spotify_id)
                         /\ UNCHANGED <<tx, songSeq>>
                 /\ UNCHANGED <<err, committed, commits, printed, conn, cur>>
    /\ UNCHANGED <<csv, i, date_time, artist_id, artistSeq, run, db0, dbInit>>

\* Lines 52-55: insert the history row, then go round the loop.
InsertHistory ==
    /\ pc = "history"
    /\ \E ok \in BOOLEAN :
         /\ envFailed' = (envFailed \/ ~ok)
         /\ IF ~ok
            THEN Raise("OperationalError")
            ELSE IF HistoryInsertAccepted
                 THEN /\ tx' = [tx EXCEPT !.history = Append(@, HistoryRow)]
                      /\ pc' = "loop"
                      /\ UNCHANGED <<err, committed, commits, printed, conn, cur>>
                 ELSE Raise("ProgrammingError")
    /\ UNCHANGED <<csv, i, date_time, artist_id, song_id, artistSeq, songSeq,
                   run, db0, dbInit>>

\* Line 58: conn.commit().
Commit ==
    /\ pc = "commit"
    /\ \E ok \in BOOLEAN :
         /\ envFailed' = (envFailed \/ ~ok)
         /\ IF ~ok
            THEN Raise("OperationalError")
            ELSE /\ committed' = View
                 /\ tx' = EmptyTx
                 /\ commits' = commits + 1
                 /\ pc' = "close"
                 /\ UNCHANGED <<err, printed, conn, cur>>
    /\ UNCHANGED <<csv, i, date_time, artist_id, song_id, artistSeq, songSeq,
                   run, db0, dbInit>>

\* Lines 59-60: cur.close() and conn.close().
Close ==
    /\ pc = "close"
    /\ cur' = "closed"
    /\ conn' = "closed"
    /\ pc' = "print"
    /\ UNCHANGED <<csv, i, date_time, artist_id, song_id, committed, tx,
                   artistSeq, songSeq, commits, printed, err, run, db0, dbInit,
                   envFailed>>

\* Line 61: print("Data imported successfully!").
PrintSuccess ==
    /\ pc = "print"
    /\ printed' = printed + 1
    /\ pc' = "done"
    /\ UNCHANGED <<csv, i, date_time, artist_id, song_id, committed, tx,
                   artistSeq, songSeq, conn, cur, commits, err, run, db0, dbInit,
                   envFailed>>

\* The script is started again on the same file and the same database.
Rerun ==
    /\ pc \in {"done", "aborted"}
    /\ run < MaxRuns
    /\ run' = run + 1
    /\ pc' = "connect"
    /\ i' = 0
    /\ date_time' = NoDate
    /\ artist_id' = 0
    /\ song_id' = 0
    /\ tx' = EmptyTx
    /\ conn' = "none"
    /\ cur' = "none"
    /\ commits' = 0
    /\ printed' = 0
    /\ err' = "none"
    /\ db0' = committed
    /\ UNCHANGED <<csv, committed, artistSeq, songSeq, dbInit, envFailed>>

Next ==
    \/ Connect
    \/ ReadRow
    \/ ParseDate
    \/ ResolveArtist
    \/ ResolveSong
    \/ InsertHistory
    \/ Commit
    \/ Close
    \/ PrintSuccess
    \/ Rerun

Spec == Init /\ [][Next]_vars

----------------------------------------------------------------------------
(* Vocabulary of the properties *)

Terminal == pc \in {"done", "aborted"}

ValidRow(r) == Len(r) = 5 /\ StrpTimeOK(r[1])

AllRowsValid == \A k \in 1..Len(csv) : ValidRow(csv[k])

\* A first run over a well-formed file during which the server never failed.
CleanFirstRunEnded == Terminal /\ run = 1 /\ AllRowsValid /\ ~envFailed

ArtistIds(db) == {a.id : a \in db.artists}
SongIds(db)   == {s.id : s \in db.songs}

RefIntegrity(db) ==
    /\ \A k \in 1..Len(db.history) : db.history[k].song_id \in SongIds(db)
    /\ \A s \in db.songs : s.artist_id \in ArtistIds(db)

----------------------------------------------------------------------------
(* Properties *)

\* C1: a run over a file of n well-formed rows reads every row once, in
\* order, adds at most one artist and one song per row and exactly n history
\* rows, and commits them in a single commit after the last row.
C1_OneHistoryRowPerInputRow ==
    CleanFirstRunEnded =>
        /\ pc = "done"
        /\ i = Len(csv)
        /\ commits = 1
        /\ Len(committed.history) = Len(db0.history) + Len(csv)
        /\ Cardinality(committed.artists) <= Cardinality(db0.artists) + Len(csv)
        /\ Cardinality(committed.songs) <= Cardinality(db0.songs) + Len(csv)

\* C2: the import is all-or-nothing: at most one commit, issued only after
\* the reader is exhausted; until then the durable database is the one the
\* run started on, and a run ended by an error leaves it so, with the rows
\* written by the transaction discarded.
C2_AllOrNothing ==
    /\ commits <= 1
    /\ (commits = 1 => i = Len(csv) /\ err = "none")
    /\ (commits = 0 => committed = db0)
    /\ (pc = "aborted" => commits = 0 /\ committed = db0 /\ tx = EmptyTx)

\* C2 witness: a first run on the empty database inserted an artist and a
\* song, then failed, and the durable database is still the empty one.
C2_Witness ==
    /\ pc = "aborted"
    /\ run = 1
    /\ dbInit = DbEmpty.db
    /\ artistSeq = 1
    /\ songSeq = 1
    /\ committed = dbInit

C4_SecondImport ==
    (Terminal /\ run = 2 /\ AllRowsValid /\ ~envFailed) =>
        /\ Cardinality(committed.artists) = Cardinality(db0.artists)
        /\ Cardinality(committed.songs) = Cardinality(db0.songs)
        /\ Len(committed.history) = Len(db0.history) + Len(csv)
        /\ Len(committed.history) = Len(dbInit.history) + 2 * Len(csv)

\* C5: referential integrity holds in every state, of the durable database
\* and of what the transaction sees: every history row's song exists, every
\* song's artist exists; the artist is resolved before the song is, and the
\* song before the history row.
C5_ReferentialIntegrity ==
    /\ RefIntegrity(committed)
    /\ RefIntegrity(View)
    /\ (pc = "song" => artist_id \in ArtistIds(View))
    /\ (pc = "history" => artist_id \in ArtistIds(View) /\ song_id \in SongIds(View))

\* C5 witness: the transaction has inserted a song for the current row.
C5_Witness ==
    /\ pc = "history"
    /\ \E s \in tx.songs : s.id = song_id /\ s.artist_id = artist_id

\* C6: after a run over a well-formed file in which two rows share a
\* spotify_id unknown to the database but differ in song name or link, there
\* is exactly one song of that spotify_id, it carries the name and link of
\* the first of the rows, and the later row's history row references it.
C6_SongKeyedOnSpotifyId ==
    CleanFirstRunEnded =>
        \A j \in 1..Len(csv) : \A k \in 1..Len(csv) :
            ( /\ j < k
              /\ csv[j][4] = csv[k][4]
              /\ (csv[j][2] # csv[k][2] \/ csv[j][5] # csv[k][5])
              /\ \A m \in 1..(j - 1) : csv[m][4] # csv[j][4]
              /\ \A s \in db0.songs : s.spotify_id # csv[j][4] )
            =>
            /\ Cardinality({s \in committed.songs : s.spotify_id = csv[j][4]}) = 1
            /\ \A s \in committed.songs :
                 s.spotify_id = csv[j][4] =>
                    /\ s.name = csv[j][2]
                    /\ s.link = csv[j][5]
                    /\ Len(committed.history) >= Len(db0.history) + k
                    /\ committed.history[Len(db0.history) + k].song_id = s.id

\* C7: after a run over a well-formed file, started on a database with at
\* most one artist per name, there is exactly one artist row for every
\* artist name of the file, names compared exactly ("Drake" and "drake" are
\* two names).
C7_OneArtistPerName ==
    CleanFirstRunEnded =>
        \A k \in 1..Len(csv) :
            Cardinality({a \in committed.artists : a.name = csv[k][3]}) = 1

\* C8: no step changes or removes an artist or song row of the durable
\* database, nor, while the run goes on, a row the transaction sees; the only
\* new rows are rows whose key (artist name, spotify_id) and id were absent;
\* when the key is present no row is written and the existing id is taken.
C8_InsertOnlyWhenAbsent ==
    [][ /\ committed.artists \subseteq committed'.artists
        /\ committed.songs \subseteq committed'.songs
        /\ committed.artists \subseteq View'.artists
        /\ committed.songs \subseteq View'.songs
        /\ (pc' # "aborted" =>
              View.artists \subseteq View'.artists /\ View.songs \subseteq View'.songs)
        /\ \A a \in View'.artists \ View.artists :
              \A b \in View.artists : b.name # a.name /\ b.id # a.id
        /\ \A s \in View'.songs \ View.songs :
              \A t \in View.songs : t.spotify_id # s.spotify_id /\ t.id # s.id
        /\ (pc = "artist" /\ pc' = "song" /\ SelectArtistIds(artist_name) # {} =>
              View'.artists = View.artists /\ artist_id' \in SelectArtistIds(artist_name))
        /\ (pc = "song" /\ pc' = "history" /\ SelectSongIds(spotify_id) # {} =>
              View'.songs = View.songs /\ song_id' \in SelectSongIds(spotify_id))
      ]_vars

\* C8 witness: a row naming another song name and link for a spotify_id the
\* database already has went through song resolution: the existing id was
\* taken and the existing row is as it was.
C8_Witness ==
    /\ pc = "history"
    /\ run = 1
    /\ dbInit = DbOneSong.db
    /\ csv[i] = RowB
    /\ song_id = 1
    /\ tx.songs = {}
    /\ View.songs = dbInit.songs

\* C9: the success line is printed at most once, exactly when the run has
\* completed without error, and then the commit has been issued; a run ended
\* by an error has printed nothing, and an error always ends the run.
C9_SuccessLine ==
    /\ printed \in {0, 1}
    /\ (printed = 1 <=> pc = "done")
    /\ (printed = 1 => commits = 1 /\ err = "none")
    /\ (pc = "aborted" => printed = 0 /\ err # "none")
    /\ (err # "none" => pc = "aborted")

\* C9 witness: a run completed: committed once, then printed once.
C9_Witness == pc = "done" /\ printed = 1 /\ commits = 1 /\ err = "none"

\* C10: after a run over a well-formed file with a row whose spotify_id is
\* of a song of the database and whose artist name is of no artist of the
\* database, the database has an artist of that name, the song still points
\* at its original artist, and the row's history row references that song.
C10_ArtistIndependentOfSong ==
    CleanFirstRunEnded =>
        \A k \in 1..Len(csv) : \A s \in db0.songs :
            ( /\ s.spotify_id = csv[k][4]
              /\ \A a \in db0.artists : a.name # csv[k][3] )
            =>
            /\ \E a \in committed.artists : a.name = csv[k][3] /\ a.id # s.artist_id
            /\ s \in committed.songs
            /\ Len(committed.history) >= Len(db0.history) + k
            /\ committed.history[Len(db0.history) + k].song_id = s.id

====
